---- MODULE Spec2Model ----
(***************************************************************************)
(* Model of coin.c: the coin weighing puzzle solver (one fake coin among    *)
(* n_coins, heavier or lighter).  Two modes: the sequential (decision      *)
(* tree) search weigh_sequential / split_selection and the static          *)
(* (base-3 heavy code) construction weigh_static.                           *)
(*                                                                         *)
(* C arrays are modelled as sequences; a C index j is the sequence index   *)
(* j + 1.  A possibility set is the sequence of its hypotheses without the *)
(* terminating INT_MAX token.                                               *)
(***************************************************************************)
EXTENDS Integers, Sequences, FiniteSets, TLC

VARIABLES
    pc,         \* position of the process: "main", "seq", "static", "add",
                \* "return", "done"; "weigh", "weighed" for weigh called on its own
    n_coins,    \* main: number of coins (option -n)
    stat,       \* main: 1 for the static mode (option -s)
    stack,      \* activations of weigh_sequential / split_selection, innermost last
    ret,        \* value being returned by the innermost finished activation, -1 if none
    hcode,      \* weigh_static: heavy codes built so far
    k_w,        \* weigh_static: k, the number of weighings
    n_w,        \* weigh_static: n, the current size of hcode
    pans,       \* print_static: the weighings decoded from hcode
    n_steps,    \* main: result of the selected mode, -1 before
    status,     \* exit status of the process, -1 while running
    fatal,      \* the fatal condition that ended the run, "none" otherwise
    wc,         \* weigh (called on its own): possibility set
    ws1,        \* weigh (called on its own): left pan
    ws2,        \* weigh (called on its own): right pan
    wr          \* weigh (called on its own): the three results

vars == <<pc, n_coins, stat, stack, ret, hcode, k_w, n_w, pans, n_steps,
          status, fatal, wc, ws1, ws2, wr>>

(***************************************************************************)
(* Bounds of the model.                                                    *)
(***************************************************************************)
MaxCoins == 39
WeighCoins == 3
\* The longest pan list tried: half of the coins, rounded up.
MaxPan == (WeighCoins + 1) \div 2
MaxDigits == 6
BigCoins == 362

(***************************************************************************)
(* C arithmetic: / truncates toward zero.                                  *)
(***************************************************************************)
CDiv(a, b) == IF a >= 0 THEN a \div b ELSE -((-a) \div b)

\* main: fewer coins are rejected.
MinCoins == 3

C_EQUAL == 0
C_MORE == 1
C_LESS == 2
C_DOUBLE == 3

\* Mutant of balance: the heavier left pan is reported with the wrong constant.
balance_wrong(x, y) == IF x < y THEN C_LESS ELSE IF x = y THEN C_EQUAL ELSE C_DOUBLE

balance(x, y) == IF x < y THEN C_LESS ELSE IF x = y THEN C_EQUAL ELSE C_MORE

new_coins(n) ==
    [i \in 1..(2 * n + 1) |->
        IF i = 1 THEN 0 ELSE IF i - 1 <= n THEN i - 1 ELSE -(i - 1 - n)]

npos(poss) == Len(poss)

(***************************************************************************)
(* get_cfg: the type of coin k (0-based) in possibility set c is that of   *)
(* the last hypothesis naming it, C_DOUBLE when exactly two name it.       *)
(***************************************************************************)
names(ci, k) == (ci > 0 /\ ci - 1 = k) \/ (ci < 0 /\ (-ci) - 1 = k)

\* Mutant of coin_type: the test hit == 2 is missing.
coin_type_nodouble(c, k) ==
    LET hitAt == {i \in 1..Len(c) : names(c[i], k)}
        last == CHOOSE i \in hitAt : \A j \in hitAt : j <= i
    IN  IF hitAt = {} THEN C_EQUAL
        ELSE IF c[last] > 0 THEN C_MORE ELSE C_LESS

coin_type(c, k) ==
    LET hitAt == {i \in 1..Len(c) : names(c[i], k)}
        last == CHOOSE i \in hitAt : \A j \in hitAt : j <= i
    IN  IF Cardinality(hitAt) = 2 THEN C_DOUBLE
        ELSE IF hitAt = {} THEN C_EQUAL
        ELSE IF c[last] > 0 THEN C_MORE ELSE C_LESS

get_cfg(c, n) ==
    LET coins == [i \in 1..n |-> i - 1]
        sel == [t \in 0..3 |->
                   LET isT(k) == coin_type(c, k) = t IN SelectSeq(coins, isT)]
    IN  [all_equal |-> IF n > 0 /\ \E i \in 1..Len(c) : c[i] = 0 THEN 1 ELSE 0,
         size |-> [t \in 0..3 |-> Len(sel[t])],
         sel |-> sel]

\* Mutant of num_pos: the coins of C_MORE are not counted.
num_pos_nomore(cfg) ==
    cfg.size[C_LESS] + cfg.size[C_DOUBLE] * 2 + cfg.all_equal

num_pos(cfg) ==
    cfg.size[C_LESS] + cfg.size[C_MORE] + cfg.size[C_DOUBLE] * 2 + cfg.all_equal

(***************************************************************************)
(* get_nkl: the numbers n1, n2, k, l of a type B selection.                *)
(***************************************************************************)
nkl_k(n_more, n1, n2, l) ==
    [n1 |-> n1, n2 |-> n2, k |-> 2 * n1 + n2 - n_more - l, l |-> l]

\* Mutant of nkl_branch: n2 = (n_less - n1) / 3, the correction a is missing.
nkl_branch_noa(n_more, n_less, l, n1, a) ==
    nkl_k(n_more, n1, CDiv(n_less - n1, 3), l)

\* One branch of the switch: l and n1 as assigned, n2 = (n_less - n1 + a) / 3.
nkl_branch(n_more, n_less, l, n1, a) ==
    nkl_k(n_more, n1, CDiv(n_less - n1 + a, 3), l)

\* Mutant of nkl_switch: l = 1 instead of -1 in case 2 with n_more odd.
nkl_switch_sign(n_more, n_less, np) ==
    CASE np % 3 = 0 ->
           IF n_more % 2 # 0
           THEN nkl_branch(n_more, n_less, 2, CDiv(n_more + 1, 2), 2)
           ELSE nkl_branch(n_more, n_less, 0, CDiv(n_more, 2), 0)
      [] np % 3 = 1 ->
           IF n_more % 2 # 0
           THEN nkl_branch(n_more, n_less, 1, CDiv(n_more + 1, 2), 1)
           ELSE nkl_branch(n_more, n_less, 0, CDiv(n_more, 2), -1)
      [] OTHER ->
           IF n_more % 2 # 0
           THEN nkl_branch(n_more, n_less, 1, CDiv(n_more - 1, 2), -1)
           ELSE nkl_branch(n_more, n_less, 0, CDiv(n_more, 2), 1)

nkl_switch(n_more, n_less, np) ==
    CASE np % 3 = 0 ->
           IF n_more % 2 # 0
           THEN nkl_branch(n_more, n_less, 2, CDiv(n_more + 1, 2), 2)
           ELSE nkl_branch(n_more, n_less, 0, CDiv(n_more, 2), 0)
      [] np % 3 = 1 ->
           IF n_more % 2 # 0
           THEN nkl_branch(n_more, n_less, 1, CDiv(n_more + 1, 2), 1)
           ELSE nkl_branch(n_more, n_less, 0, CDiv(n_more, 2), -1)
      [] OTHER ->
           IF n_more % 2 # 0
           THEN nkl_branch(n_more, n_less, -1, CDiv(n_more - 1, 2), -1)
           ELSE nkl_branch(n_more, n_less, 0, CDiv(n_more, 2), 1)

get_nkl(cfg) ==
    nkl_switch(cfg.size[C_MORE], cfg.size[C_LESS],
               cfg.size[C_MORE] + cfg.size[C_LESS])

switch_more_less(cfg) ==
    [cfg EXCEPT !.size = [cfg.size EXCEPT ![C_LESS] = cfg.size[C_MORE],
                                          ![C_MORE] = cfg.size[C_LESS]],
                !.sel = [cfg.sel EXCEPT ![C_LESS] = cfg.sel[C_MORE],
                                        ![C_MORE] = cfg.sel[C_LESS]]]

(***************************************************************************)
(* A read of s[j] (C index j).  A read outside the array is undefined      *)
(* behaviour: it yields the arbitrary value g.                             *)
(***************************************************************************)
rd(s, j, g) == IF j >= 0 /\ j < Len(s) THEN s[j + 1] ELSE g

(***************************************************************************)
(* get_sel_A.  The result records the pans, their size n, and l.           *)
(***************************************************************************)
\* Mutant of sel_A: the right pan is read from index j, not j + n.
sel_A_overlap(cfg, n, l, g) ==
    [type |-> "A", exit |-> -1, n |-> n, cfg |-> cfg,
     s1 |-> [j \in 1..n |-> rd(cfg.sel[C_DOUBLE], j - 1, g)],
     s2 |-> [j \in 1..n |->
                IF l = 1 /\ j = n THEN rd(cfg.sel[C_EQUAL], 0, g)
                ELSE rd(cfg.sel[C_DOUBLE], j - 1, g)],
     n1 |-> 0, n2 |-> 0, k |-> 0, l |-> l, filled |-> n]

sel_A(cfg, n, l, g) ==
    [type |-> "A", exit |-> -1, n |-> n, cfg |-> cfg,
     s1 |-> [j \in 1..n |-> rd(cfg.sel[C_DOUBLE], j - 1, g)],
     s2 |-> [j \in 1..n |->
                IF l = 1 /\ j = n THEN rd(cfg.sel[C_EQUAL], 0, g)
                ELSE rd(cfg.sel[C_DOUBLE], j - 1 + n, g)],
     n1 |-> 0, n2 |-> 0, k |-> 0, l |-> l, filled |-> n]

\* Mutant of sel_A_switch: always m / 3 coins on each pan, rounded down.
sel_A_switch_floor(cfg, m, g) == sel_A(cfg, CDiv(m, 3), 0, g)

sel_A_switch(cfg, m, g) ==
    CASE m % 3 = 0 -> sel_A(cfg, CDiv(m, 3), 0, g)
      [] m % 3 = 1 -> IF cfg.size[C_EQUAL] # 0
                      THEN sel_A(cfg, CDiv(m + 2, 3), 1, g)
                      ELSE sel_A(cfg, CDiv(m - 1, 3), 0, g)
      [] OTHER     -> sel_A(cfg, CDiv(m + 1, 3), 0, g)

get_sel_A(cfg, g) == sel_A_switch(cfg, cfg.size[C_DOUBLE], g)

(***************************************************************************)
(* get_sel_B.  cfg is switched in place when the first get_nkl fails; n is *)
(* 0 when both fail.  filled is the number of entries written to s2; an    *)
(* entry of s2 that was never written holds the arbitrary value g.         *)
(***************************************************************************)
infeasible(r) == r.n1 < 0 \/ r.n2 < 0 \/ r.k < 0

\* The two pans: s1 holds ns entries; s2 receives w1 entries of C_MORE, then
\* entries of C_LESS up to w2, then entries of C_EQUAL up to w3.
fill_B(cfg, r, ns, d, w1, w2, w3, g) ==
    [type |-> "B", exit |-> -1, n |-> ns, cfg |-> cfg,
     s1 |-> [j \in 1..ns |->
               IF j - 1 < r.n1 THEN rd(cfg.sel[C_MORE], j - 1, g)
               ELSE IF j - 1 < r.n1 + r.n2
                    THEN rd(cfg.sel[C_LESS], j - 1 - r.n1, g)
               ELSE rd(cfg.sel[C_EQUAL], 0, g)],
     s2 |-> [j \in 1..ns |->
               IF j - 1 < w1 THEN rd(cfg.sel[C_MORE], j - 1 + r.n1, g)
               ELSE IF j - 1 < w2
                    THEN rd(cfg.sel[C_LESS], j - 1 - d + r.n2, g)
               ELSE IF j - 1 < w3 THEN rd(cfg.sel[C_EQUAL], j - 1 - w2, g)
               ELSE g],
     n1 |-> r.n1, n2 |-> r.n2, k |-> r.k, l |-> r.l, filled |-> w3]

\* The loop bounds of the three loops that write s2.
fill_B_w(cfg, r, ns, d, w1, g) ==
    fill_B(cfg, r, ns, d, w1,
           IF d + r.k > w1 THEN d + r.k ELSE w1,
           (IF d + r.k > w1 THEN d + r.k ELSE w1) + (IF r.l > 0 THEN r.l ELSE 0),
           g)

fill_B_d(cfg, r, d, g) ==
    fill_B_w(cfg, r, r.n1 + r.n2 + (IF r.l < 0 THEN -r.l ELSE 0), d,
             IF d > 0 THEN d ELSE 0, g)

sel_B(cfg, r, g) ==
    IF infeasible(r)
    THEN [type |-> "B", exit |-> -1, n |-> 0, cfg |-> cfg,
          s1 |-> <<>>, s2 |-> <<>>,
          n1 |-> r.n1, n2 |-> r.n2, k |-> r.k, l |-> r.l, filled |-> 0]
    ELSE fill_B_d(cfg, r, cfg.size[C_MORE] - r.n1, g)

sel_B_retry(cfg, g) == sel_B(cfg, get_nkl(cfg), g)

\* Mutant of get_sel_B: no second try with C_MORE and C_LESS switched.
get_sel_B_noretry(cfg, g) == sel_B(cfg, get_nkl(cfg), g)

get_sel_B(cfg, g) ==
    IF infeasible(get_nkl(cfg))
    THEN sel_B_retry(switch_more_less(cfg), g)
    ELSE sel_B(cfg, get_nkl(cfg), g)

(***************************************************************************)
(* getselection: type A or type B, otherwise exit(1).                      *)
(***************************************************************************)
isTypeA(cfg) == cfg.size[C_MORE] = 0 /\ cfg.size[C_LESS] = 0 /\ cfg.all_equal # 0
isTypeB(cfg) == cfg.size[C_DOUBLE] = 0 /\ cfg.all_equal = 0

getselection(cfg, g) ==
    IF isTypeA(cfg) THEN get_sel_A(cfg, g)
    ELSE IF isTypeB(cfg) THEN get_sel_B(cfg, g)
    ELSE [type |-> "none", exit |-> 1, n |-> 0, cfg |-> cfg,
          s1 |-> <<>>, s2 |-> <<>>,
          n1 |-> 0, n2 |-> 0, k |-> 0, l |-> 0, filled |-> 0]

(***************************************************************************)
(* sum and weigh.                                                          *)
(***************************************************************************)
sum(c, s, len) ==
    IF \E j \in 1..len : names(c, s[j])
    THEN (IF c > 0 THEN 1 ELSE -1)
    ELSE 0

\* Mutant of weigh: add_int is called with the old size, so that the last
\* hypothesis of each result is overwritten by the terminating token.
weigh_short(c, s1, s2, len) ==
    [t \in 0..2 |->
        LET goes(ci) == balance(sum(ci, s1, len), sum(ci, s2, len)) = t
            all == SelectSeq(c, goes)
        IN  SubSeq(all, 1, Len(all) - 1)]

weigh(c, s1, s2, len) ==
    [t \in 0..2 |->
        LET goes(ci) == balance(sum(ci, s1, len), sum(ci, s2, len)) = t
        IN  SelectSeq(c, goes)]

\* Mutant of max3: the comparisons are reversed.
max3_min(a, b, c) ==
    LET mab == IF a < b THEN a ELSE b IN IF mab < c THEN mab ELSE c

max3(a, b, c) ==
    LET mab == IF a > b THEN a ELSE b IN IF mab > c THEN mab ELSE c

(***************************************************************************)
(* Static strategy: base-3 heavy codes.                                    *)
(***************************************************************************)
RECURSIVE ipow(_, _)
ipow(x, n) == IF n = 0 THEN 1 ELSE x * ipow(x, n - 1)

RECURSIVE op(_)
op(x) ==
    IF x = 0 THEN 0
    ELSE (CASE x % 3 = 1 -> 2 [] x % 3 = 2 -> 1 [] OTHER -> 0) + 3 * op(x \div 3)

RECURSIVE digit(_, _)
digit(x, n) == IF n > 0 THEN digit(x \div 3, n - 1) ELSE x % 3

\* op is pure: its values on the codes of up to MaxDigits digits, computed once.
op_tab == [x \in 0..(ipow(3, MaxDigits) - 1) |-> op(x)]

op_c(x) == IF x \in DOMAIN op_tab THEN op_tab[x] ELSE op(x)

\* Mutant of isfree: the complement op(hcode[j]) is not compared.
isfree_nocomp(t, hc, nc) ==
    \A j \in 1..nc : ~(t = hc[j])

isfree(t, hc, nc) ==
    \A j \in 1..nc : ~(t = hc[j] \/ t = op_c(hc[j]))

(***************************************************************************)
(* missing: the smallest k in 1..N that is neither a code of b nor the     *)
(* complement of one; 0 stands for the "Error." exit.                      *)
(***************************************************************************)
\* Mutant of missing: the complements op(b[k]) are not marked.
missing_nocomp(b, n, N) ==
    LET t == {b[j] : j \in 1..n}
        free == {x \in 1..N : x \notin t}
    IN  IF free = {} THEN 0
        ELSE CHOOSE x \in free : \A y \in free : x <= y

missing(b, n, N) ==
    LET t == {b[j] : j \in 1..n} \cup {op(b[j]) : j \in 1..n}
        free == {x \in 1..N : x \notin t}
    IN  IF free = {} THEN 0
        ELSE CHOOSE x \in free : \A y \in free : x <= y

(***************************************************************************)
(* qsort with compare: the ascending permutation of s.                     *)
(***************************************************************************)
compare(a, b) == a < b

qsort(s) == SortSeq(s, compare)

(***************************************************************************)
(* getbase: the saturated table for k weighings.  ok is FALSE when missing *)
(* ended the run.                                                          *)
(***************************************************************************)
RECURSIVE getbase(_)
getbase(k) ==
    IF k = 2 THEN [ok |-> TRUE, b |-> <<1, 8, 3>>]
    ELSE LET prev == getbase(k - 1)
             c == ipow(3, k - 1)
             n == CDiv(c, 2) - 1
             b == prev.b
             m == missing(b, n, c - 1)
         IN  IF ~prev.ok \/ m = 0 THEN [ok |-> FALSE, b |-> b]
             ELSE [ok |-> TRUE,
                   b |-> qsort(b
                               \o [j \in 1..n |-> b[j] + c]
                               \o [j \in 1..n |-> b[j] + 2 * c]
                               \o <<2 * c, m, c + op(m)>>)]

(***************************************************************************)
(* mcomplement: 0 when hc has a non-zero digit where m has one.            *)
(***************************************************************************)
RECURSIVE mc_loop(_, _, _, _, _, _)
mc_loop(j, m, hc, c, s, k) ==
    IF j >= k THEN s
    ELSE LET r == m % 3
             rh == hc % 3
         IN  IF r = 0 THEN mc_loop(j + 1, m \div 3, hc \div 3, c * 3, s + rh * c, k)
             ELSE IF rh # 0 THEN 0
             ELSE mc_loop(j + 1, m \div 3, hc \div 3, c * 3,
                          s + (IF r = 1 THEN 2 ELSE 1) * c, k)

\* Mutant of mcomplement: the digits of m are copied, not complemented.
mcomplement_same(m, hc, k) ==
    IF mc_loop(0, m, hc, 1, 0, k) = 0 THEN 0 ELSE hc + m

mcomplement(m, hc, k) == mc_loop(0, m, hc, 1, 0, k)

(***************************************************************************)
(* add: the first m in 1..3^k-1 that is free and has a member hc[j] whose  *)
(* modification t is free; hc[j] becomes t, m is appended, hc is sorted.   *)
(* ok is FALSE for the "add failure" exit.                                 *)
(***************************************************************************)
add_j(hc, k, nc, m) ==
    {j \in 1..nc : mcomplement(m, hc[j], k) # 0
                   /\ isfree(mcomplement(m, hc[j], k), hc, nc)}

add_ok(hc, k, nc, m) == isfree(m, hc, nc) /\ add_j(hc, k, nc, m) # {}

\* The first m in lo..hi with add_ok, 0 if there is none: the for loop over m,
\* which stops at the first success.
RECURSIVE add_m(_, _, _, _, _)
RECURSIVE add_m_right(_, _, _, _, _, _)
add_m(hc, k, nc, lo, hi) ==
    IF lo > hi THEN 0
    ELSE IF lo = hi THEN (IF add_ok(hc, k, nc, lo) THEN lo ELSE 0)
    ELSE add_m_right(hc, k, nc, lo, hi, add_m(hc, k, nc, lo, (lo + hi) \div 2))

add_m_right(hc, k, nc, lo, hi, left) ==
    IF left # 0 THEN left ELSE add_m(hc, k, nc, (lo + hi) \div 2 + 1, hi)

lowest(js) == CHOOSE x \in js : \A y \in js : x <= y

add_commit(hc, k, m, j) ==
    qsort(Append([hc EXCEPT ![j] = mcomplement(m, hc[j], k)], m))

add_found(hc, k, nc, m) ==
    IF m = 0 THEN [ok |-> FALSE, hc |-> hc]
    ELSE [ok |-> TRUE, hc |-> add_commit(hc, k, m, lowest(add_j(hc, k, nc, m)))]

add(hc, k, nc) == add_found(hc, k, nc, add_m(hc, k, nc, 1, ipow(3, k) - 1))

(***************************************************************************)
(* print_static: round i = k-1 .. 0 puts the coins with digit 1 on the     *)
(* left and those with digit 2 on the right; ok is FALSE for the           *)
(* "Error print_static." exit.                                             *)
(***************************************************************************)
round_pans(i, nc, hc) ==
    LET coins == [j \in 1..nc |-> j - 1]
        is1(j) == digit(hc[j + 1], i) = 1
        is2(j) == digit(hc[j + 1], i) = 2
    IN  [s1 |-> SelectSeq(coins, is1), s2 |-> SelectSeq(coins, is2)]

print_static(k, nc, hc) ==
    LET rounds == [x \in 1..k |-> round_pans(k - x, nc, hc)]
        bad == {x \in 1..k : Len(rounds[x].s1) = 0
                             \/ Len(rounds[x].s1) # Len(rounds[x].s2)}
    IN  [ok |-> bad = {}, pans |-> rounds]

(***************************************************************************)
(* weigh_static: the loop that finds k and the closest base size n.        *)
(***************************************************************************)
n_sat(k) == CDiv(ipow(3, k) - 1, 2) - 1

RECURSIVE find_base(_, _, _)
find_base(nc, k, n) ==
    LET n_base == n_sat(k)
        n2 == IF n_base <= nc THEN n_base ELSE n
    IN  IF n_base >= nc THEN [k |-> k, n |-> n2]
        ELSE find_base(nc, k + 1, n2)

(***************************************************************************)
(* The process.  Init is the state of main after option parsing.           *)
(***************************************************************************)
NoCfg == [all_equal |-> 0, size |-> [t \in 0..3 |-> 0], sel |-> [t \in 0..3 |-> <<>>]]

NoSel == [type |-> "none", exit |-> -1, n |-> 0, cfg |-> NoCfg,
          s1 |-> <<>>, s2 |-> <<>>,
          n1 |-> 0, n2 |-> 0, k |-> 0, l |-> 0, filled |-> 0]

\* An activation of weigh_sequential on possibility set c, at its entry.
Frame(c) == [c |-> c, at |-> "enter", sel |-> NoSel,
             cr |-> [t \in 0..2 |-> <<>>], r |-> <<>>]

\* The values a read outside an array may yield: a coin index or none.
Garbage == {-1, 0}

Top == stack[Len(stack)]
Pop == SubSeq(stack, 1, Len(stack) - 1)

InitMain(ns, modes) ==
    /\ pc = "main"
    /\ n_coins \in ns
    /\ stat \in modes
    /\ stack = <<>>
    /\ ret = -1
    /\ hcode = <<>>
    /\ k_w = 0
    /\ n_w = 0
    /\ pans = <<>>
    /\ n_steps = -1
    /\ status = -1
    /\ fatal = "none"
    /\ wc = <<>>
    /\ ws1 = <<>>
    /\ ws2 = <<>>
    /\ wr = [t \in 0..2 |-> <<>>]

Init == InitMain(1..MaxCoins, {0, 1})

\* exit(code) from the fatal condition what.
Exit(code, what) ==
    /\ pc' = "done"
    /\ status' = code
    /\ fatal' = what

\* main: rejects n_coins < 3, otherwise starts the selected mode.
MainStart ==
    /\ pc = "main"
    /\ IF n_coins < MinCoins
       THEN Exit(0, "none") /\ UNCHANGED stack
       ELSE /\ pc' = IF stat = 1 THEN "static" ELSE "seq"
            /\ stack' = IF stat = 1 THEN stack ELSE <<Frame(new_coins(n_coins))>>
            /\ UNCHANGED <<status, fatal>>
    /\ UNCHANGED <<n_coins, stat, ret, hcode, k_w, n_w, pans, n_steps,
                   wc, ws1, ws2, wr>>

\* weigh_sequential on a set with at most one possibility: returns 0.
SeqLeaf ==
    /\ pc = "seq" /\ ret = -1 /\ stack # <<>>
    /\ Top.at = "enter"
    /\ num_pos(get_cfg(Top.c, n_coins)) <= 1
    /\ stack' = Pop
    /\ ret' = 0
    /\ pc' = IF Pop = <<>> THEN "return" ELSE "seq"
    /\ UNCHANGED <<n_coins, stat, hcode, k_w, n_w, pans, n_steps, status, fatal,
                   wc, ws1, ws2, wr>>

\* weigh_sequential on a larger set: getselection, then split_selection up to
\* its first recursive call (on the C_MORE result).
SplitWeighed(sel, cr) ==
    /\ stack' = Append(
           [stack EXCEPT ![Len(stack)] =
               [c |-> Top.c, at |-> "more", sel |-> sel, cr |-> cr, r |-> <<>>]],
           Frame(cr[C_MORE]))
    /\ UNCHANGED <<pc, status, fatal>>

SplitSelected(sel) ==
    IF sel.exit = 1
    THEN Exit(1, "getselection") /\ UNCHANGED stack
    ELSE IF sel.n > 0
    THEN SplitWeighed(sel, weigh(Top.c, sel.s1, sel.s2, sel.n))
    ELSE Exit(0, "weigh_sequential") /\ UNCHANGED stack

SplitCfg(cfg) ==
    /\ num_pos(cfg) > 1
    /\ \E g \in Garbage : SplitSelected(getselection(cfg, g))

SeqSplit ==
    /\ pc = "seq" /\ ret = -1 /\ stack # <<>>
    /\ Top.at = "enter"
    /\ SplitCfg(get_cfg(Top.c, n_coins))
    /\ UNCHANGED <<n_coins, stat, ret, hcode, k_w, n_w, pans, n_steps,
                   wc, ws1, ws2, wr>>

\* split_selection: a recursive call returned r1 or r2; call the next one.
SeqResume ==
    /\ pc = "seq" /\ ret >= 0 /\ stack # <<>>
    /\ Top.at \in {"more", "equal"}
    /\ stack' = Append(
           [stack EXCEPT ![Len(stack)] =
               [Top EXCEPT !.at = IF Top.at = "more" THEN "equal" ELSE "less",
                           !.r = Append(Top.r, ret)]],
           Frame(Top.cr[IF Top.at = "more" THEN C_EQUAL ELSE C_LESS]))
    /\ ret' = -1
    /\ UNCHANGED <<pc, n_coins, stat, hcode, k_w, n_w, pans, n_steps, status,
                   fatal, wc, ws1, ws2, wr>>

\* split_selection: the third call returned r3; return 1 + max3(r1, r2, r3).
SeqFinish ==
    /\ pc = "seq" /\ ret >= 0 /\ stack # <<>>
    /\ Top.at = "less"
    /\ stack' = Pop
    /\ ret' = 1 + max3(Top.r[1], Top.r[2], ret)
    /\ pc' = IF Pop = <<>> THEN "return" ELSE "seq"
    /\ UNCHANGED <<n_coins, stat, hcode, k_w, n_w, pans, n_steps, status, fatal,
                   wc, ws1, ws2, wr>>

\* weigh_static: find k and n, allocate hcode, getbase.
StaticBase ==
    /\ pc = "static"
    /\ LET fb == find_base(n_coins, 2, 0)
           base == getbase(IF fb.n = n_coins THEN fb.k ELSE fb.k - 1)
       IN  IF base.ok
           THEN /\ pc' = "add"
                /\ hcode' = base.b
                /\ k_w' = fb.k
                /\ n_w' = fb.n
                /\ UNCHANGED <<status, fatal>>
           ELSE Exit(0, "missing") /\ UNCHANGED <<hcode, k_w, n_w>>
    /\ UNCHANGED <<n_coins, stat, stack, ret, pans, n_steps, wc, ws1, ws2, wr>>

\* weigh_static: one iteration of while(n < n_coins) add(hcode, k, n++).
StaticAdd ==
    /\ pc = "add"
    /\ n_w < n_coins
    /\ LET a == add(hcode, k_w, n_w)
       IN  IF a.ok
           THEN /\ hcode' = a.hc
                /\ n_w' = n_w + 1
                /\ UNCHANGED <<pc, status, fatal>>
           ELSE Exit(0, "add") /\ UNCHANGED <<hcode, n_w>>
    /\ UNCHANGED <<n_coins, stat, stack, ret, k_w, pans, n_steps, wc, ws1, ws2, wr>>

\* weigh_static: print_static and return k.
StaticPrint ==
    /\ pc = "add"
    /\ n_w >= n_coins
    /\ LET p == print_static(k_w, n_coins, hcode)
       IN  IF p.ok
           THEN /\ pans' = p.pans
                /\ ret' = k_w
                /\ pc' = "return"
                /\ UNCHANGED <<status, fatal>>
           ELSE Exit(1, "print_static") /\ UNCHANGED <<pans, ret>>
    /\ UNCHANGED <<n_coins, stat, stack, hcode, k_w, n_w, n_steps, wc, ws1, ws2, wr>>

\* main: n_steps is the value returned; main ends, the exit status is 0.
MainFinish ==
    /\ pc = "return"
    /\ n_steps' = ret
    /\ pc' = "done"
    /\ status' = 0
    /\ UNCHANGED <<n_coins, stat, stack, ret, hcode, k_w, n_w, pans, fatal,
                   wc, ws1, ws2, wr>>

Next ==
    \/ MainStart
    \/ SeqLeaf
    \/ SeqSplit
    \/ SeqResume
    \/ SeqFinish
    \/ StaticBase
    \/ StaticAdd
    \/ StaticPrint
    \/ MainFinish

Spec == Init /\ [][Next]_vars

(***************************************************************************)
(* The static mode for BigCoins coins, beside both modes for MinCoins.     *)
(***************************************************************************)
InitBig == InitMain({MinCoins}, {0, 1}) \/ InitMain({BigCoins}, {1})

SpecBig == InitBig /\ [][Next]_vars

(***************************************************************************)
(* weigh called on its own: any possibility set over WeighCoins coins (in  *)
(* the order of new_coins) and any two pans of the same length.            *)
(***************************************************************************)
nth(I, j) == CHOOSE i \in I : Cardinality({x \in I : x <= i}) = j

pick(s, I) == [j \in 1..Cardinality(I) |-> s[nth(I, j)]]

PossSets(n) == {pick(new_coins(n), I) : I \in SUBSET (1..(2 * n + 1))}

PanLists(n, len) == [1..len -> 0..(n - 1)]

InitWeigh ==
    /\ pc = "weigh"
    /\ wc \in PossSets(WeighCoins)
    /\ ws1 = <<>>
    /\ ws2 = <<>>
    /\ wr = [t \in 0..2 |-> <<>>]
    /\ n_coins = WeighCoins
    /\ stat = 0
    /\ stack = <<>>
    /\ ret = -1
    /\ hcode = <<>>
    /\ k_w = 0
    /\ n_w = 0
    /\ pans = <<>>
    /\ n_steps = -1
    /\ status = -1
    /\ fatal = "none"

WeighCall ==
    /\ pc = "weigh"
    /\ \E len \in 0..MaxPan :
         \E s1 \in PanLists(WeighCoins, len), s2 \in PanLists(WeighCoins, len) :
            /\ ws1' = s1
            /\ ws2' = s2
            /\ wr' = weigh(wc, s1, s2, len)
    /\ pc' = "weighed"
    /\ UNCHANGED <<wc, n_coins, stat, stack, ret, hcode, k_w, n_w, pans,
                   n_steps, status, fatal>>

SpecWeigh == InitWeigh /\ [][WeighCall]_vars

(***************************************************************************)
(* Properties.                                                             *)
(***************************************************************************)
Range(s) == {s[i] : i \in 1..Len(s)}

\* The activations that have selected and weighed (those of split_selection).
SplitAt == {i \in 1..Len(stack) : stack[i].at # "enter"}

Sizes(cr) == {Len(cr[t]) : t \in 0..2}

Balanced(cr) == \A a \in Sizes(cr), b \in Sizes(cr) : a - b <= 1

\* C1: weigh splits the possibility set into three results that are pairwise
\* disjoint and whose union is the set: nothing lost, duplicated or invented.
C1_WeighPartition ==
    pc = "weighed" =>
        /\ Range(wr[C_MORE]) \cap Range(wr[C_EQUAL]) = {}
        /\ Range(wr[C_MORE]) \cap Range(wr[C_LESS]) = {}
        /\ Range(wr[C_EQUAL]) \cap Range(wr[C_LESS]) = {}
        /\ Range(wr[C_MORE]) \cup Range(wr[C_EQUAL]) \cup Range(wr[C_LESS]) = Range(wc)
        /\ Len(wr[C_MORE]) + Len(wr[C_EQUAL]) + Len(wr[C_LESS]) = Len(wc)

C1_Witness ==
    /\ pc = "weighed"
    /\ Len(wc) = 2 * WeighCoins + 1
    /\ Len(ws1) = MaxPan
    /\ \A t \in 0..2 : wr[t] # <<>>

\* C2: the number of weighings returned by either mode is at least
\* ceil(log3(2n+1)), that is 3^n_steps >= 2n+1, and it is exactly k for the
\* saturated n = (3^k-1)/2 - 1 (3 for n = 12).
C2_Depth ==
    (pc = "done" /\ fatal = "none" /\ n_coins >= MinCoins) =>
        /\ ipow(3, n_steps) >= 2 * n_coins + 1
        /\ \A kk \in 2..MaxDigits : n_coins = n_sat(kk) => n_steps = kk
        /\ n_coins = 12 => n_steps = 3

C2_Witness ==
    /\ pc = "done" /\ fatal = "none" /\ stat = 0
    /\ n_coins = 12 /\ n_steps = 3

\* C3 as claimed: the sequential search for 3 coins returns 1.
C3_Original ==
    (pc = "done" /\ stat = 0 /\ n_coins = 3) => n_steps = 1

\* C3 amended: the sequential search for 3 coins returns 2.
C3_Amended ==
    (pc = "done" /\ stat = 0 /\ n_coins = 3) => (fatal = "none" /\ n_steps = 2)

C3_Witness ==
    pc = "done" /\ stat = 0 /\ n_coins = 3 /\ n_steps = 2

\* C4: below the root, the three results of every selected weighing differ in
\* size by at most 1.
C4_Balanced ==
    \A i \in SplitAt : i > 1 => Balanced(stack[i].cr)

C4_Witness ==
    /\ \E i \in SplitAt : i > 1 /\ stack[i].sel.type = "A"
    /\ \E i \in SplitAt : i > 1 /\ stack[i].sel.type = "B"
    /\ ~Balanced(stack[1].cr)

\* C5: in the static mode, no two coins of the code table share a code, and no
\* code is the complement of another coin's code: after getbase and after
\* every add.
Unique(hc) ==
    \A i \in 1..Len(hc), j \in 1..Len(hc) :
        i # j => (hc[i] # hc[j] /\ hc[i] # op(hc[j]))

C5_Unique == stat = 1 => Unique(hcode)

C5_Witness ==
    /\ pc = "add" /\ stat = 1
    /\ n_w > n_sat(k_w - 1) + 1
    /\ n_w = Len(hcode)

\* C6: under the k weighings decoded from the finished code table, the 2n+1
\* hypotheses give pairwise distinct outcome sequences; no code is 0 and
\* every code is below 3^k.
Outcome(h, round) ==
    balance(sum(h, round.s1, Len(round.s1)), sum(h, round.s2, Len(round.s2)))

Outcomes(h, k, nc, hc) == [x \in 1..k |-> Outcome(h, round_pans(k - x, nc, hc))]

Decodable(k, nc, hc) ==
    /\ Cardinality({Outcomes(new_coins(nc)[i], k, nc, hc) : i \in 1..(2 * nc + 1)})
         = 2 * nc + 1
    /\ \A j \in 1..nc : hc[j] # 0 /\ hc[j] < ipow(3, k)

C6_Decodable ==
    (pc = "add" /\ n_w = n_coins) => Decodable(k_w, n_coins, hcode)

C6_Witness ==
    /\ pc = "add" /\ n_w = n_coins
    /\ n_coins > n_sat(k_w - 1) + 1 /\ n_coins < n_sat(k_w)

\* C7 as claimed: for a type B configuration with sizes p, q, e the three
\* results of the selected weighing hold p + q + e + all_equal hypotheses.
SumSizes(cr) == Len(cr[C_MORE]) + Len(cr[C_EQUAL]) + Len(cr[C_LESS])

C7_Original ==
    \A i \in SplitAt : stack[i].sel.type = "B" =>
        SumSizes(stack[i].cr) =
            stack[i].sel.cfg.size[C_MORE] + stack[i].sel.cfg.size[C_LESS]
            + stack[i].sel.cfg.size[C_EQUAL] + stack[i].sel.cfg.all_equal

\* C7 amended: they hold p + q hypotheses, the num_pos of the configuration;
\* the e coins of C_EQUAL are not counted and all_equal is 0.
C7_Amended ==
    \A i \in SplitAt : stack[i].sel.type = "B" =>
        /\ SumSizes(stack[i].cr) =
              stack[i].sel.cfg.size[C_MORE] + stack[i].sel.cfg.size[C_LESS]
        /\ SumSizes(stack[i].cr) = num_pos(stack[i].sel.cfg)
        /\ stack[i].sel.cfg.all_equal = 0

C7_Witness ==
    \E i \in SplitAt :
        /\ stack[i].sel.type = "B"
        /\ stack[i].sel.cfg.size[C_EQUAL] > 0
        /\ stack[i].sel.cfg.size[C_MORE] > 0
        /\ stack[i].sel.cfg.size[C_LESS] > 0

\* C8: the selector returns two pans of the same length that are disjoint,
\* hold no coin twice and only coins 0..n-1, and no group is read beyond its
\* size; the right pan is filled with exactly as many entries as its length.
PansOk(sel) ==
    /\ Len(sel.s1) = sel.n /\ Len(sel.s2) = sel.n
    /\ Range(sel.s1) \cap Range(sel.s2) = {}
    /\ Cardinality(Range(sel.s1)) = sel.n
    /\ Cardinality(Range(sel.s2)) = sel.n
    /\ Range(sel.s1) \cup Range(sel.s2) \subseteq 0..(n_coins - 1)
    /\ sel.filled = sel.n

ReadsOk(sel) ==
    IF sel.type = "A"
    THEN /\ 2 * sel.n - sel.l <= sel.cfg.size[C_DOUBLE]
         /\ sel.l <= sel.cfg.size[C_EQUAL]
    ELSE /\ sel.n1 <= sel.cfg.size[C_MORE]
         /\ sel.n2 + sel.k <= sel.cfg.size[C_LESS]
         /\ (IF sel.l < 0 THEN -sel.l ELSE sel.l) <= sel.cfg.size[C_EQUAL]

C8_Pans ==
    \A i \in SplitAt : PansOk(stack[i].sel) /\ ReadsOk(stack[i].sel)

C8_Witness ==
    /\ \E i \in SplitAt : stack[i].sel.type = "A" /\ stack[i].sel.l = 1
    /\ \E i \in SplitAt : stack[i].sel.type = "B" /\ stack[i].sel.l # 0

\* C9: a run ended by a fatal condition has a non-zero exit status.
C9_NonZero ==
    (pc = "done" /\ fatal # "none") => status # 0

\* C10: every possibility set of the sequential search is of type A or of
\* type B, so getselection never exits; weighing a type A set gives type B
\* sets for C_MORE and C_LESS and a type A set for C_EQUAL, weighing a type B
\* set gives three type B sets.
TypeOfCfg(cfg) ==
    IF isTypeA(cfg) THEN "A" ELSE IF isTypeB(cfg) THEN "B" ELSE "none"

TypeOf(c) == TypeOfCfg(get_cfg(c, n_coins))

\* Every activation is the innermost one when it is entered, and the one below
\* the innermost when it has weighed: these two are checked in every state.
Innermost == {i \in 1..Len(stack) : i >= Len(stack) - 1}

C10_Types ==
    /\ fatal # "getselection"
    /\ \A i \in Innermost : TypeOf(stack[i].c) \in {"A", "B"}
    /\ \A i \in SplitAt \cap Innermost :
         /\ stack[i].sel.type = TypeOf(stack[i].c)
         /\ stack[i].sel.type = "A" =>
              /\ TypeOf(stack[i].cr[C_MORE]) = "B"
              /\ TypeOf(stack[i].cr[C_LESS]) = "B"
              /\ TypeOf(stack[i].cr[C_EQUAL]) = "A"
         /\ stack[i].sel.type = "B" =>
              \A t \in 0..2 : TypeOf(stack[i].cr[t]) = "B"

C10_Witness ==
    /\ \E i \in SplitAt : stack[i].sel.type = "A" /\ i > 1
    /\ \E i \in SplitAt : stack[i].sel.type = "B" /\ stack[i].cr[C_MORE] = <<>>

\* C11: every configuration with at least 2 hypotheses gets a positive pan
\* size: for type B, get_nkl gives n1, n2, k >= 0 directly or after one
\* switch_more_less, so get_sel_B never returns 0 and weigh_sequential never
\* reaches its "Error" exit.
Feasible(cfg) ==
    \/ ~infeasible(get_nkl(cfg))
    \/ ~infeasible(get_nkl(switch_more_less(cfg)))

Selectable(cfg) ==
    num_pos(cfg) > 1 =>
        /\ \A g \in Garbage : getselection(cfg, g).n > 0
        /\ isTypeB(cfg) => Feasible(cfg)

C11_Selectable ==
    /\ fatal # "weigh_sequential"
    /\ (pc = "seq" /\ stack # <<>> /\ Top.at = "enter") =>
           Selectable(get_cfg(Top.c, n_coins))
    /\ \A i \in SplitAt :
           /\ stack[i].sel.n > 0
           /\ stack[i].sel.type = "B" =>
                 (stack[i].sel.n1 >= 0 /\ stack[i].sel.n2 >= 0 /\ stack[i].sel.k >= 0)

\* A type B activation that weighed after get_sel_B switched C_MORE and C_LESS.
C11_Witness ==
    \E i \in SplitAt :
        /\ stack[i].sel.type = "B"
        /\ stack[i].sel.n > 0
        /\ infeasible(get_nkl(switch_more_less(stack[i].sel.cfg)))

\* C12: the sequential search terminates.  Every activation that weighed holds
\* at least 2 hypotheses and splits them into three results, each strictly
\* smaller than its set, that partition it; each inner activation works on one
\* of the results of the activation below it; an activation returns without
\* weighing exactly when its set holds at most 1 hypothesis; every step
\* lowers Rank, a natural number, and a step is possible until main has
\* ended, so every run ends, and the sequential search ends without a fatal
\* condition.
Partition(c, cr) ==
    /\ \A t \in 0..2, u \in 0..2 : t # u => Range(cr[t]) \cap Range(cr[u]) = {}
    /\ Range(cr[0]) \cup Range(cr[1]) \cup Range(cr[2]) = Range(c)
    /\ SumSizes(cr) = Len(c)

Branch(at) == IF at = "more" THEN C_MORE ELSE IF at = "equal" THEN C_EQUAL ELSE C_LESS

C12_Shrinks ==
    /\ \A i \in SplitAt :
          /\ Len(stack[i].c) >= 2
          /\ \A t \in 0..2 : Len(stack[i].cr[t]) < Len(stack[i].c)
          /\ Partition(stack[i].c, stack[i].cr)
    /\ \A i \in 1..(Len(stack) - 1) :
          /\ i \in SplitAt
          /\ stack[i + 1].c = stack[i].cr[Branch(stack[i].at)]
    /\ (pc = "seq" /\ stack # <<>> /\ Top.at = "enter") =>
          (num_pos(get_cfg(Top.c, n_coins)) <= 1 <=> Len(Top.c) <= 1)

\* The steps an activation on a set of m hypotheses can take at most: W(m)
\* exceeds 4 + the sum of W over three strictly smaller parts of m.
W(m) == IF m = 0 THEN 1 ELSE 7 * m - 6

\* The steps left to an activation and to the calls it has still to make.
Pending(f) ==
    CASE f.at = "enter" -> W(Len(f.c))
      [] f.at = "more"  -> 3 + W(Len(f.cr[C_EQUAL])) + W(Len(f.cr[C_LESS]))
      [] f.at = "equal" -> 2 + W(Len(f.cr[C_LESS]))
      [] OTHER          -> 1

RECURSIVE PendingAll(_)
PendingAll(stk) ==
    IF stk = <<>> THEN 0 ELSE Pending(Head(stk)) + PendingAll(Tail(stk))

\* A bound on the number of steps the run can still take.
Rank ==
    CASE pc = "main"   -> 4 + W(2 * n_coins + 1)
      [] pc = "seq"    -> 2 + PendingAll(stack)
      [] pc = "static" -> 3 + n_coins
      [] pc = "add"    -> 2 + n_coins - n_w
      [] pc = "return" -> 1
      [] OTHER         -> 0

\* The run can take a step unless main has ended.
CanStep ==
    \/ pc \in {"main", "static", "add", "return"}
    \/ /\ pc = "seq" /\ stack # <<>>
       /\ IF Top.at = "enter" THEN ret = -1 ELSE ret >= 0

C12_Terminates ==
    /\ [](C12_Shrinks /\ Rank >= 0 /\ (pc # "done" => CanStep))
    /\ [][Rank' < Rank]_vars
    /\ [](pc = "done" /\ stat = 0 => fatal = "none")

\* A finished search of depth 4 whose first weighing was the unbalanced one.
C12_Witness ==
    /\ pc = "done" /\ stat = 0 /\ fatal = "none"
    /\ n_coins % 3 = 1 /\ n_steps >= 4

\* C13: in the static mode, after getbase and after every add, every round
\* i in 0..k-1 has as many coins with digit 1 as with digit 2; in the finished
\* table that number is at least 1, so print_static never reaches its
\* "Error print_static." exit.
RoundBalanced(i, nc, hc) ==
    Len(round_pans(i, nc, hc).s1) = Len(round_pans(i, nc, hc).s2)

RoundUsed(i, nc, hc) == Len(round_pans(i, nc, hc).s1) >= 1

C13_Rounds ==
    /\ fatal # "print_static"
    /\ (stat = 1 /\ pc = "add") =>
          /\ Len(hcode) = n_w
          /\ \A i \in 0..(k_w - 1) : RoundBalanced(i, n_w, hcode)
          /\ n_w = n_coins =>
                /\ \A i \in 0..(k_w - 1) : RoundUsed(i, n_w, hcode)
                /\ print_static(k_w, n_coins, hcode).ok

\* A finished table, built by several adds, whose first round weighs one coin
\* against one.
C13_Witness ==
    /\ stat = 1 /\ pc = "add" /\ n_w = n_coins
    /\ n_coins > n_sat(k_w - 1) + 1
    /\ Len(round_pans(k_w - 1, n_w, hcode).s1) = 1

\* C14: for a non-saturated n, n_sat(k-1) < n < n_sat(k), every call of add
\* finds a free m and a member to modify: the "add failure" exit is never
\* reached.
C14_AddSucceeds ==
    (stat = 1 /\ k_w >= 2 /\ n_sat(k_w - 1) < n_coins /\ n_coins < n_sat(k_w)) =>
        fatal # "add"

\* C15: for n >= 3 both modes return the same number of weighings, the
\* smallest k >= 2 with (3^k-1)/2 - 1 >= n: a run of either mode ends without
\* a fatal condition and returns that k.
IsMinK(k, n) ==
    /\ k >= 2
    /\ (ipow(3, k) - 1) \div 2 - 1 >= n
    /\ \A j \in 2..(k - 1) : (ipow(3, j) - 1) \div 2 - 1 < n

C15_SameDepth ==
    (pc = "done" /\ n_coins >= MinCoins) =>
        /\ fatal = "none"
        /\ IsMinK(n_steps, n_coins)

\* The sequential search has returned 4 for 14 coins, a non-saturated number.
C15_Witness ==
    /\ pc = "done" /\ stat = 0 /\ fatal = "none"
    /\ n_coins = 14 /\ n_steps = 4 /\ IsMinK(4, 14)

====
